---- MODULE Spec2Model ----
(***************************************************************************)
(* State machine of src/direct_ifc_query.ts: the top-level start-up        *)
(* sequence of the page (its awaits are the steps), the two text inputs,   *)
(* the Update button's handler updateFinder, and the finder / hider        *)
(* objects the script drives.  The finder and the hider are classes of the *)
(* external library @thatopen/components; their bodies are not part of the *)
(* repository, so the operators that stand for them follow spec.md         *)
(* sections 3 and 4.1 and are marked as such where they are defined.       *)
(***************************************************************************)
EXTENDS Naturals, Sequences, FiniteSets

VARIABLES
    pc,             \* the await the top-level script is suspended at
    file,           \* content of the fetched IFC file (ifcFile), <<>> before
    scene,          \* TRUE once world.scene.three.add(model) ran
    queryGroup,     \* names of the queries added to the group, in order
    rules,          \* rules list of each query (names of rule objects)
    ruleValue,      \* .value of categoryRule and of propertyRule (a source)
    ids,            \* matches each query holds for the model
    visible,        \* elements the hider currently shows
    items,          \* the top-level const items of line 202
    categoryInput,  \* text of the Category field
    propertyInput,  \* text of the Property field
    calls,          \* the queryGroup.update calls made so far, see Call
    alerts,         \* number of alert("No items found!") shown
    log,            \* start-up steps in the order they ran
    lastDone        \* the latest undisturbed evaluation: its texts and result

vars == <<pc, file, scene, queryGroup, rules, ruleValue, ids, visible, items,
          categoryInput, propertyInput, calls, alerts, log, lastDone>>

---------------------------------------------------------------------------
\* Bounds of the model.
NumElements == 2
MaxRuns == 3

Elements == 1..NumElements

\* Element categories and property values a fetched file may hold.
Categories == {"IfcWallStandardCase", "IfcDoor"}
PropValues == {"yeso", "madera"}
PropName == "Acabado"

\* Texts a user may type into a field: a category, a property value,
\* the empty text and a text that is no valid expression.
Texts == {"IfcWallStandardCase", "yeso", "", "("}

Files == [Elements -> [category : Categories, value : PropValues]]

Undefined == "undefined"
NoFile == << >>
NoResult == [valid |-> FALSE, cat |-> "", prop |-> "", items |-> {}]

---------------------------------------------------------------------------
\* new RegExp(text) throws a SyntaxError when text is no valid expression.
RegExpValid(text) == text # "("

\* new RegExp(text), kept as the .source of the object built: the empty
\* text gives the pattern (?:), any other valid text is its own source.
RegExpNew(text) == IF text = "" THEN "(?:)" ELSE text

\* pattern.test(s).  (?:) and .* match every string; the other patterns of
\* the model are literals, found in a string of the model only when equal.
RegExpTest(pattern, s) ==
    CASE pattern = "(?:)" -> TRUE
      [] pattern = ".*" -> TRUE
      [] OTHER -> pattern = s

\* The rule objects of lines 172-175 and 183-187.
CategoryRuleInit == "IfcWallStandardCase"
PropertyRuleInit == "yeso"
PropertyRuleName == ".*"

\* inclusive flag of basicQuery (line 162) and propertyQuery (line 191).
Inclusive == [category |-> FALSE, property |-> FALSE]

---------------------------------------------------------------------------
\* The finder of the external library, after spec.md 3 and 4.1.

\* One rule against one element of the file.
RuleMatches(rule, el) ==
    CASE rule = "categoryRule" ->
            RegExpTest(ruleValue.categoryRule, el.category)
      [] rule = "propertyRule" ->
            /\ RegExpTest(PropertyRuleName, PropName)
            /\ RegExpTest(ruleValue.propertyRule, el.value)

\* A query's matches: every rule when inclusive, at least one otherwise.
QueryMatches(q) ==
    LET R == {rules[q][i] : i \in 1..Len(rules[q])}
    IN  {e \in DOMAIN file :
            IF Inclusive[q]
            THEN \A r \in R : RuleMatches(r, file[e])
            ELSE \E r \in R : RuleMatches(r, file[e])}

\* query.clear(): the matches the query holds are discarded.
QueryClear(held, q) == [held EXCEPT ![q] = {}]

\* queryGroup.items: the matches of the member queries, combined.
GroupItems ==
    UNION {ids[queryGroup[i]] : i \in 1..Len(queryGroup)}

\* What the group's result is once the current rules have been evaluated.
GroupMatches ==
    UNION {QueryMatches(queryGroup[i]) : i \in 1..Len(queryGroup)}

\* hider.set(flag): every element of the model shown or hidden.
HiderSetAll(shown, flag) ==
    IF flag THEN shown \cup DOMAIN file ELSE shown \ DOMAIN file

\* hider.set(flag, found): the elements of found shown or hidden.
HiderSet(shown, flag, found) ==
    IF flag THEN shown \cup found ELSE shown \ found

---------------------------------------------------------------------------
\* A queryGroup.update call.  calls[1] is the call of line 201, the later
\* ones are updateFinder's (line 254).  phase: awaiting (the scan has not
\* run), scanned (the scan ran, the caller has not resumed), done, threw
\* (updateFinder ended at new RegExp).  While the call is in flight, start
\* is the visible set it started with, solo whether no other updateFinder
\* ran since, and cat and prop, kept while solo, the texts it started with.
Call(ph, st, so, c, p) ==
    [phase |-> ph, start |-> st, solo |-> so, cat |-> c, prop |-> p]

Ended(ph) == Call(ph, {}, FALSE, "", "")

InFlight == {c \in 1..Len(calls) : calls[c].phase \in {"awaiting", "scanned"}}

\* Every call in flight is marked as disturbed by another updateFinder.
Disturb(cs) ==
    [c \in 1..Len(cs) |->
        IF cs[c].phase \in {"awaiting", "scanned"}
        THEN [cs[c] EXCEPT !.solo = FALSE, !.cat = "", !.prop = ""]
        ELSE cs[c]]

StartupOrder ==
    <<"fetch", "convert", "addToScene", "addBasicQuery", "addPropertyQuery",
      "evaluate", "visibility", "panel">>

---------------------------------------------------------------------------
Init ==
    /\ pc = "setup"
    /\ file = NoFile
    /\ scene = FALSE
    /\ queryGroup = << >>
    /\ rules = [category |-> << >>, property |-> << >>]
    /\ ruleValue = [categoryRule |-> Undefined, propertyRule |-> Undefined]
    /\ ids = [category |-> {}, property |-> {}]
    /\ visible = {}
    /\ items = {}
    /\ categoryInput = ""
    /\ propertyInput = ""
    /\ calls = << >>
    /\ alerts = 0
    /\ log = << >>
    /\ lastDone = NoResult

\* await fragmentIfcLoader.setup() resolves; fetch is issued.
SetupDone ==
    /\ pc = "setup"
    /\ pc' = "fetch"
    /\ UNCHANGED <<file, scene, queryGroup, rules, ruleValue, ids, visible,
                   items, categoryInput, propertyInput, calls, alerts, log,
                   lastDone>>

\* await fetch(...) resolves; arrayBuffer() is issued.
FetchDone ==
    /\ pc = "fetch"
    /\ pc' = "arrayBuffer"
    /\ UNCHANGED <<file, scene, queryGroup, rules, ruleValue, ids, visible,
                   items, categoryInput, propertyInput, calls, alerts, log,
                   lastDone>>

\* await fileResponse.arrayBuffer() resolves with the bytes of the file;
\* fragmentIfcLoader.load(buffer) is issued.
BufferDone(d) ==
    /\ pc = "arrayBuffer"
    /\ pc' = "load"
    /\ file' = d
    /\ log' = Append(log, "fetch")
    /\ UNCHANGED <<scene, queryGroup, rules, ruleValue, ids, visible, items,
                   categoryInput, propertyInput, calls, alerts, lastDone>>

\* An awaited start-up promise rejects: nothing catches it and the script
\* ends there.
StartupFail ==
    /\ pc \in {"setup", "fetch", "arrayBuffer", "load"}
    /\ pc' = "failed"
    /\ UNCHANGED <<file, scene, queryGroup, rules, ruleValue, ids, visible,
                   items, categoryInput, propertyInput, calls, alerts, log,
                   lastDone>>

\* await fragmentIfcLoader.load(buffer) resolves.  Lines 148-201 run: the
\* model joins the scene (all of it shown), both queries are built and
\* added, and queryGroup.update is called and awaited.
LoadDone ==
    /\ pc = "load"
    /\ pc' = "initialUpdate"
    /\ scene' = TRUE
    /\ visible' = DOMAIN file
    /\ queryGroup' = <<"category", "property">>
    /\ rules' = [category |-> <<"categoryRule">>,
                 property |-> <<"propertyRule">>]
    /\ ruleValue' = [categoryRule |-> CategoryRuleInit,
                     propertyRule |-> PropertyRuleInit]
    /\ calls' = <<Call("awaiting", DOMAIN file, TRUE,
                       CategoryRuleInit, PropertyRuleInit)>>
    /\ log' = log \o <<"convert", "addToScene", "addBasicQuery",
                       "addPropertyQuery", "evaluate">>
    /\ UNCHANGED <<file, ids, items, categoryInput, propertyInput, alerts,
                   lastDone>>

\* The scan of a queryGroup.update call (external library, after spec.md 3:
\* the result is cleared and recomputed on every update call).  It runs at
\* some moment while the call is in flight: the matches of every member
\* query are discarded and computed again from the rules as they stand at
\* that moment.  The caller resumes in a later step.
Scan(c) ==
    /\ c \in 1..Len(calls)
    /\ calls[c].phase = "awaiting"
    /\ ids' = [q \in DOMAIN ids |->
                 IF \E i \in 1..Len(queryGroup) : queryGroup[i] = q
                 THEN QueryMatches(q)
                 ELSE ids[q]]
    /\ calls' = [calls EXCEPT ![c].phase = "scanned"]
    /\ UNCHANGED <<pc, file, scene, queryGroup, rules, ruleValue, visible,
                   items, categoryInput, propertyInput, alerts, log,
                   lastDone>>

\* Line 201 without its await: the script goes on while the scan may not
\* have run yet.
InitialNotAwaited == calls[1].phase \in {"awaiting", "scanned"}

\* Line 201's await has resolved: the scan of the initial call has run.
InitialAwaited == calls[1].phase = "scanned"

\* hider.set(false); hider.set(true, items) of lines 205-206.
InitialIsolate(shown, found) ==
    HiderSet(HiderSetAll(shown, FALSE), TRUE, found)

\* The initial queryGroup.update resolves.  Lines 202-306 run: the result
\* is read and isolated, the two inputs are created with the sources of
\* the rules as their values, and the panel is attached to the page.
InitialResume ==
    /\ pc = "initialUpdate"
    /\ InitialAwaited
    /\ pc' = "ready"
    /\ items' = GroupItems
    /\ visible' = InitialIsolate(visible, GroupItems)
    /\ categoryInput' = ruleValue.categoryRule
    /\ propertyInput' = ruleValue.propertyRule
    /\ calls' = [calls EXCEPT ![1] = Ended("done")]
    /\ log' = log \o <<"visibility", "panel">>
    /\ lastDone' = [valid |-> TRUE, cat |-> calls[1].cat,
                    prop |-> calls[1].prop, items |-> GroupItems]
    /\ UNCHANGED <<file, scene, queryGroup, rules, ruleValue, ids, alerts>>

\* The panel attached before line 201's await instead of after it.
PanelAttachedEarly == pc \in {"initialUpdate", "ready"}

\* The panel with the two inputs and the Update button is on the page
\* (document.body.append(panel), line 286).
PanelAttached == pc = "ready"

\* updateFinder without its two clear() calls.
ClearQueriesSkipped(held) == held

\* basicQuery.clear(); propertyQuery.clear();
ClearQueries(held) == QueryClear(QueryClear(held, "category"), "property")

\* updateFinder without line 253: propertyRule keeps its old value.
SetRuleValuesCategoryOnly(rv, cat, prop) ==
    [rv EXCEPT !.categoryRule = RegExpNew(cat)]

\* Lines 252-253 reading each other's field.
SetRuleValuesSwapped(rv, cat, prop) ==
    [rv EXCEPT !.categoryRule = RegExpNew(prop),
               !.propertyRule = RegExpNew(cat)]

\* categoryRule.value = new RegExp(categoryInput.value);
\* propertyRule.value = new RegExp(propertyInput.value);
SetRuleValues(rv, cat, prop) ==
    [rv EXCEPT !.categoryRule = RegExpNew(cat),
               !.propertyRule = RegExpNew(prop)]

\* The user leaves the texts cat and prop in the two fields and clicks
\* Update, both texts valid: updateFinder runs up to its await (lines
\* 250-254).
UpdateFinderCall(cat, prop) ==
    /\ PanelAttached
    /\ Len(calls) < MaxRuns + 1
    /\ RegExpValid(cat)
    /\ RegExpValid(prop)
    /\ categoryInput' = cat
    /\ propertyInput' = prop
    /\ ids' = ClearQueries(ids)
    /\ ruleValue' = SetRuleValues(ruleValue, cat, prop)
    /\ calls' = Append(Disturb(calls),
                       Call("awaiting", visible, InFlight = {}, cat, prop))
    /\ UNCHANGED <<pc, file, scene, queryGroup, rules, visible, items,
                   alerts, log, lastDone>>

\* updateFinder calling queryGroup.update before it builds the patterns:
\* the call is in flight when new RegExp throws.
UpdateFinderThrowLate(cat, prop) ==
    /\ PanelAttached
    /\ Len(calls) < MaxRuns + 1
    /\ ~(RegExpValid(cat) /\ RegExpValid(prop))
    /\ categoryInput' = cat
    /\ propertyInput' = prop
    /\ ids' = ClearQueries(ids)
    /\ ruleValue' = IF RegExpValid(cat)
                    THEN [ruleValue EXCEPT !.categoryRule = RegExpNew(cat)]
                    ELSE ruleValue
    /\ calls' = Append(Disturb(calls),
                       Call("awaiting", visible, FALSE, "", ""))
    /\ UNCHANGED <<pc, file, scene, queryGroup, rules, visible, items,
                   alerts, log, lastDone>>

\* The same with a text that is no valid expression: new RegExp throws at
\* line 252 or at line 253, after both clear() calls, and the handler's
\* promise rejects; queryGroup.update is not reached.
UpdateFinderThrow(cat, prop) ==
    /\ PanelAttached
    /\ Len(calls) < MaxRuns + 1
    /\ ~(RegExpValid(cat) /\ RegExpValid(prop))
    /\ categoryInput' = cat
    /\ propertyInput' = prop
    /\ ids' = ClearQueries(ids)
    /\ ruleValue' = IF RegExpValid(cat)
                    THEN [ruleValue EXCEPT !.categoryRule = RegExpNew(cat)]
                    ELSE ruleValue
    /\ calls' = Append(Disturb(calls), Ended("threw"))
    /\ UNCHANGED <<pc, file, scene, queryGroup, rules, visible, items,
                   alerts, log, lastDone>>

\* updateFinder without the early return of lines 257-260.
NoItemsNever(found) == FALSE

\* Object.keys(items).length === 0
NoItems(found) == found = {}

\* updateFinder without the hider.set(false) of line 261.
IsolateNoHide(shown, found) == HiderSet(shown, TRUE, found)

\* hider.set(false); hider.set(true, items) of lines 261-262.
Isolate(shown, found) ==
    HiderSet(HiderSetAll(shown, FALSE), TRUE, found)

\* updateFinder's queryGroup.update resolves; lines 255-263 run.
UpdateFinderResume(c) ==
    /\ c \in 2..Len(calls)
    /\ calls[c].phase = "scanned"
    /\ LET found == GroupItems
       IN  /\ IF NoItems(found)
              THEN /\ alerts' = alerts + 1
                   /\ visible' = visible
              ELSE /\ alerts' = alerts
                   /\ visible' = Isolate(visible, found)
           /\ lastDone' = IF calls[c].solo
                          THEN [valid |-> TRUE, cat |-> calls[c].cat,
                                prop |-> calls[c].prop, items |-> found]
                          ELSE NoResult
    /\ calls' = [calls EXCEPT ![c] = Ended("done")]
    /\ UNCHANGED <<pc, file, scene, queryGroup, rules, ruleValue, ids,
                   items, categoryInput, propertyInput, log>>

Next ==
    \/ SetupDone
    \/ FetchDone
    \/ \E d \in Files : BufferDone(d)
    \/ StartupFail
    \/ LoadDone
    \/ \E c \in 1..(MaxRuns + 1) : Scan(c)
    \/ InitialResume
    \/ \E cat, prop \in Texts : UpdateFinderCall(cat, prop)
    \/ \E cat, prop \in Texts : UpdateFinderThrow(cat, prop)
    \/ \E c \in 2..(MaxRuns + 1) : UpdateFinderResume(c)

Spec == Init /\ [][Next]_vars

---------------------------------------------------------------------------
\* Steps the properties below speak of.

\* updateFinder call c resumes after its await in this step.
Resumes(c) ==
    /\ c \in 2..Len(calls)
    /\ calls[c].phase = "scanned"
    /\ calls'[c].phase = "done"

\* The initial evaluation's await resumes in this step.
InitialResumes == pc = "initialUpdate" /\ pc' = "ready"

\* updateFinder is invoked in this step.
Invoked == Len(calls) >= 1 /\ Len(calls') = Len(calls) + 1

\* A value of a rule that is a pattern new RegExp can have built.
PatternValid(p) == p # "("

IsPrefix(a, b) ==
    /\ Len(a) <= Len(b)
    /\ \A i \in 1..Len(a) : a[i] = b[i]

---------------------------------------------------------------------------
\* C1 (as stated): whenever an updateFinder completes with zero matches,
\* the visible set after it is what it was before that updateFinder
\* started.
C1_VisibleAsBeforeStart ==
    [][\A c \in 2..(MaxRuns + 1) :
        (Resumes(c) /\ GroupItems = {}) => visible' = calls[c].start]_vars

\* C1 (amended): whenever an updateFinder completes with zero matches,
\* the user is alerted and neither hider.set runs: the visible set after
\* the completion is what it was just before the completion.
C1_EmptyResultSkipsVisibility ==
    [][\A c \in 2..(MaxRuns + 1) :
        (Resumes(c) /\ GroupItems = {}) =>
            (visible' = visible /\ alerts' = alerts + 1)]_vars

\* An updateFinder has completed with zero matches and left elements
\* visible.
C1_Witness == alerts > 0 /\ visible # {}

C5_ResultMatchesCurrentRules ==
    [][\A c \in 1..(MaxRuns + 1) :
        (c \in 1..Len(calls) /\ calls[c].phase = "scanned"
            /\ calls'[c].phase = "done") =>
                GroupItems \subseteq GroupMatches]_vars

\* An updateFinder is about to read a result from which an element of the
\* previous result has gone.
C5_Witness ==
    /\ \E c \in 2..Len(calls) : calls[c].phase = "scanned"
    /\ lastDone.valid
    /\ lastDone.items \ GroupItems # {}
    /\ GroupItems # {}

\* C6: when either text is no valid expression, updateFinder ends at
\* new RegExp: no queryGroup.update call is started, the visible set is
\* unchanged, and no rule ever holds a malformed pattern.
C6_MalformedPatternRejected ==
    [][/\ (Invoked /\ ~(RegExpValid(categoryInput')
                        /\ RegExpValid(propertyInput'))) =>
            /\ InFlight' = InFlight
            /\ visible' = visible
            /\ calls'[Len(calls')].phase = "threw"
       /\ PatternValid(ruleValue'.categoryRule)
       /\ PatternValid(ruleValue'.propertyRule)]_vars

\* An updateFinder has ended at new RegExp while elements were visible.
C6_Witness ==
    /\ \E c \in 2..Len(calls) : calls[c].phase = "threw"
    /\ visible # {}

\* C7 (as stated): at most one queryGroup.update call is in flight at any
\* moment.
C7_AtMostOneInFlight == Cardinality(InFlight) <= 1

\* C7 (amended): until the panel with the Update button is attached, only
\* the initial queryGroup.update call can be in flight; updateFinder calls
\* are started only from then on.
C7_OneInFlightUntilPanel ==
    /\ pc # "ready" => (InFlight \subseteq {1} /\ Len(calls) <= 1)
    /\ pc = "ready" => 1 \notin InFlight

\* The initial call is in flight, its scan run, before the panel exists.
C7_Witness == pc = "initialUpdate" /\ InFlight = {1}
               /\ calls[1].phase = "scanned"

\* C8: once built, the category query holds exactly categoryRule and the
\* property query exactly propertyRule, through every clear(); and when
\* updateFinder calls queryGroup.update, each rule's value is the pattern
\* built from the text of its field.
C8_RulesKeptAndSetFromFields ==
    [][/\ scene' => rules' = [category |-> <<"categoryRule">>,
                              property |-> <<"propertyRule">>]
       /\ (Invoked /\ calls'[Len(calls')].phase = "awaiting") =>
            /\ ruleValue'.categoryRule = RegExpNew(categoryInput')
            /\ ruleValue'.propertyRule = RegExpNew(propertyInput')]_vars

\* A second updateFinder has called queryGroup.update with both texts
\* changed from the ones the rules were built with.
C8_Witness ==
    /\ Len(calls) >= 3
    /\ calls[3].phase = "awaiting"
    /\ ruleValue.categoryRule = "(?:)"
    /\ ruleValue.propertyRule = "IfcWallStandardCase"
    /\ rules.category = <<"categoryRule">>

\* C9: after the initial evaluation, and after every updateFinder that
\* completes with a non-empty result, the visible elements are exactly
\* the result read.
C9_VisibleIsResult ==
    [][/\ InitialResumes => visible' = GroupItems
       /\ \A c \in 2..(MaxRuns + 1) :
            (Resumes(c) /\ GroupItems # {}) => visible' = GroupItems]_vars

\* An updateFinder has completed and shows a result that is neither
\* everything nor what the initial evaluation showed.
C9_Witness ==
    /\ \E c \in 2..Len(calls) : calls[c].phase = "done"
    /\ alerts = 0
    /\ visible = GroupItems
    /\ visible # {}
    /\ visible # DOMAIN file
    /\ visible # items

\* C10: the start-up steps run in the order fetch, convert, add to the
\* scene, add both queries, evaluate, apply visibility, attach the panel;
\* visibility is applied only once the evaluation has run; and no
\* updateFinder is invoked before the panel is attached.
C10_StartupOrder ==
    [][/\ IsPrefix(log', StartupOrder)
       /\ InitialResumes => calls[1].phase = "scanned"
       /\ pc' = "ready" => log' = StartupOrder
       /\ Len(calls') > 1 => (pc = "ready" /\ calls'[1].phase = "done")]_vars

\* The whole sequence has run and an updateFinder has been invoked.
C10_Witness == pc = "ready" /\ log = StartupOrder /\ Len(calls) >= 2

====
